---- MODULE Spec2Model ----
(***************************************************************************)
(* The ACK engine (boolforge/ack-cpp): the session/menu state machine of   *)
(* AckEngine and the resource loads that feed it, modelled from            *)
(* src/ack.cpp and src/ack.h.                                              *)
(*                                                                         *)
(* The engine object is one record, eng, whose fields carry the names of   *)
(* the members they model (_advName -> advName, ...).  Every method of the *)
(* engine is an operator from an engine record (and the files it opens) to *)
(* the engine record it leaves behind, so that a method calling another is *)
(* an operator using another.  Members the code only ever writes           *)
(* (_checking, _daughter, _ds, _dc, _lastCfgLoad, _keyboardInput,          *)
(* _lastKeyPressed, _mouseClicked, _i, _i1, _i2) are not modelled.         *)
(*                                                                         *)
(* Two specifications:                                                     *)
(*   Spec     the program: run() from the constructed engine through       *)
(*            allocateResources, initGameState and mainMenuLoop, one event *)
(*            of the host's queue at a time;                               *)
(*   SpecOps  one call of one method on an engine whose members hold any   *)
(*            value of their type, for the claims about a method's         *)
(*            contract.                                                    *)
(***************************************************************************)
EXTENDS Integers, Sequences, FiniteSets, TLC

VARIABLES
    eng,      \* the AckEngine object and what it has drawn on the host
    env,      \* the host's files and the startup parameter
    pc,       \* where run() stands
    accel,    \* the last event polled in the current input wait was a quit accelerator
    commit,   \* an Enter key or a left click was polled during the current wait
    pending,  \* an option was dispatched and no redisplay has followed yet
    call      \* SpecOps: the method called, its arguments, the engine it was called on

vars == <<eng, env, pc, accel, commit, pending, call>>

(***************************************************************************)
(* Constants of the program.                                               *)
(***************************************************************************)
kAckVersion == 20
kGrapsSize == 10
kMaxIcons == 100
kScrnhSize == 40
kScreenWidth == 320
kScreenHeight == 200
kNoCmd == 1

\* The char codes the menu compares against.
CR == 13
ESC == 27
CharLowerQ == 113
CharUpperQ == 81
CharLowerA == 97
CharUpperA == 65

\* Common::KeyCode values named by convertKeyCode.
KEYCODE_RETURN == 13
KEYCODE_ESCAPE == 27
KEYCODE_a == 97
KEYCODE_q == 113
KEYCODE_z == 122
KEYCODE_A == 65
KEYCODE_Q == 81
KEYCODE_Z == 90
KEYCODE_F1 == 282

(***************************************************************************)
(* Bounds of the model.                                                    *)
(***************************************************************************)
\* A tile is data[0..TileDim][0..TileDim] (the program's is data[17][17]).
TileDim == 2
\* A palette has NPal entries (the program's has 256).
NPal == 2

NONAME == "NONAME"
Byte == 0..255
ToByte(n) == n % 256

(***************************************************************************)
(* Tiles (Grap256Unit) and tables of them.                                 *)
(***************************************************************************)
TileIdx == 0..TileDim
ZeroTile == [r \in TileIdx |-> [c \in TileIdx |-> 0]]
\* Cell k of a tile in memory order (row-major, as the struct is laid out).
TileCells == (TileDim + 1) * (TileDim + 1)
CellRow(k) == k \div (TileDim + 1)
CellCol(k) == k % (TileDim + 1)

\* Record i of an icon file of pattern pat: a fixed tile holding markers (222),
\* also in row 0 and column 0, and never all zero.
FileTile(pat, i) ==
    [r \in TileIdx |-> [c \in TileIdx |->
        IF (r + c + i) % 3 = pat % 3 THEN 222 ELSE ((i + 7 * pat + r) % 200) + 1]]

ZeroIcons == [i \in 0..kMaxIcons |-> ZeroTile]
ZeroGraphic == [i \in 0..(kGrapsSize + 4) |-> ZeroTile]

(***************************************************************************)
(* The host's files.  env.pal[name] is <systemDir><name>.PAL (0: no such   *)
(* file, else the id of its contents); env.master[name] is                 *)
(* <name>MASTER.DAT as loadConfig opens it; env.sysMaster is the set of    *)
(* names for which <systemDir><name>MASTER.DAT exists, as loadAdventure    *)
(* asks; env.ico is <systemDir>ACKDATA1.ICO; env.param is arg_0;           *)
(* env.saved is the file of that name in the save-file manager's store.    *)
(***************************************************************************)
NoMaster == [exists |-> FALSE, short |-> FALSE, ackVersion |-> 0, textColors |-> 0]
FullMaster(v) == [exists |-> TRUE, short |-> FALSE, ackVersion |-> v, textColors |-> 1]
\* A file that ends after the ten colour bytes, before the version field.
ShortMaster == [exists |-> TRUE, short |-> TRUE, ackVersion |-> 0, textColors |-> 2]

NoIco == [exists |-> FALSE, count |-> 0, tail |-> 0, pat |-> 0]
\* An icon file of count complete records followed by tail bytes of one more.
IcoFile(count, tail, pat) == [exists |-> TRUE, count |-> count, tail |-> tail, pat |-> pat]
\* A file that saveIcons wrote: it follows no pattern (pat is -1), its
\* records are the tiles it was given.
WrittenIco(icons) ==
    [exists |-> TRUE, count |-> kMaxIcons, tail |-> 0, pat |-> -1,
     recs |-> [i \in 1..kMaxIcons |-> icons[i]]]
\* Record i of an icon file.
Record(f, i) ==
    IF f.pat = -1
    THEN (IF i \in 1..kMaxIcons THEN f.recs[i] ELSE ZeroTile)
    ELSE FileTile(f.pat, i)

PalFileOf(fs, name) == IF name \in DOMAIN fs.pal THEN fs.pal[name] ELSE 0
MasterOf(fs, name) == IF name \in DOMAIN fs.master THEN fs.master[name] ELSE NoMaster

\* Entry i of the palette file of contents id, as the bytes (r, g, b) it holds.
PalBytes(id, i) ==
    CASE id = 1 -> <<i, 63, 21>>
      [] id = 2 -> <<63 - i, 0, 42>>
      [] OTHER  -> <<64 + i, 255, 7>>

(***************************************************************************)
(* Host services: the palette manager, warning(), the text painter.        *)
(***************************************************************************)
warning(s, msg) == [s EXCEPT !.warnings = Append(@, msg)]

NoText == [p \in {} |-> <<0, "">>]
NoIcons == [p \in {} |-> [slot |-> 0, tile |-> ZeroTile]]

displayText(s, x, y, color, text) ==
    [s EXCEPT !.screenText = (<<x, y>> :> <<color, text>>) @@ @]

clearScreen(s) ==
    [s EXCEPT !.screenText = NoText, !.screenIcons = NoIcons,
              !.screenBuffer = [row \in DOMAIN @ |-> 0]]

(***************************************************************************)
(* AckEngine::loadBmpPalette                                               *)
(***************************************************************************)
\* A loadBmpPalette that gives up when <name>.PAL cannot be opened.
loadBmpPaletteNoFallback(s, fs, ver, name) ==
    LET file == PalFileOf(fs, name)
    IN  IF file = 0
        THEN warning(s, "Could not open palette file PALETTE.PAL")
        ELSE [s EXCEPT !.palette =
                 [i \in 0..(NPal - 1) |->
                     <<ToByte(PalBytes(file, i)[1] * 4),
                       ToByte(PalBytes(file, i)[2] * 4),
                       ToByte(PalBytes(file, i)[3] * 4)>>]]

\* A loadBmpPalette that fills the host palette from the last slot down.
loadBmpPaletteReversed(s, fs, ver, name) ==
    LET first == PalFileOf(fs, name)
        file  == IF first # 0 THEN first ELSE PalFileOf(fs, "PALETTE")
    IN  IF file = 0
        THEN warning(s, "Could not open palette file PALETTE.PAL")
        ELSE [s EXCEPT !.palette =
                 [i \in 0..(NPal - 1) |->
                     <<ToByte(PalBytes(file, NPal - 1 - i)[1] * 4),
                       ToByte(PalBytes(file, NPal - 1 - i)[2] * 4),
                       ToByte(PalBytes(file, NPal - 1 - i)[3] * 4)>>]]

loadBmpPalette(s, fs, ver, name) ==
    LET first == PalFileOf(fs, name)
        file  == IF first # 0 THEN first ELSE PalFileOf(fs, "PALETTE")
    IN  IF file = 0
        THEN warning(s, "Could not open palette file PALETTE.PAL")
        ELSE [s EXCEPT !.palette =
                 [i \in 0..(NPal - 1) |->
                     <<ToByte(PalBytes(file, i)[1] * 4),
                       ToByte(PalBytes(file, i)[2] * 4),
                       ToByte(PalBytes(file, i)[3] * 4)>>]]

(***************************************************************************)
(* AckEngine::version                                                      *)
(***************************************************************************)
version(v) ==
    LET b == ToByte(v)
    IN  "V" \o ToString(b \div 10) \o "." \o ToString(b % 10)

(***************************************************************************)
(* AckEngine::loadConfig                                                   *)
(***************************************************************************)
\* ackFile.read(&_ack, sizeof(MasterRec)): the bytes the file holds replace the
\* front of the record, the rest of the record keeps what it held.
ReadMaster(ack, f) ==
    IF f.short
    THEN [ack EXCEPT !.textColors = f.textColors]
    ELSE [textColors |-> f.textColors, ackVersion |-> f.ackVersion]

\* A loadConfig that keeps the adventure's name when the file cannot be opened.
loadConfigKeepsName(s, fs) ==
    LET f == MasterOf(fs, s.advName)
    IN  IF ~f.exists
        THEN s
        ELSE LET s1 == [s EXCEPT !.ack = ReadMaster(@, f)]
             IN  loadBmpPalette(s1, fs, s1.ack.ackVersion, s1.advName)

loadConfig(s, fs) ==
    LET f == MasterOf(fs, s.advName)
    IN  IF ~f.exists
        THEN [s EXCEPT !.advName = NONAME]
        ELSE LET s1 == [s EXCEPT !.ack = ReadMaster(@, f)]
             IN  loadBmpPalette(s1, fs, s1.ack.ackVersion, s1.advName)

(***************************************************************************)
(* AckEngine::loadIcons                                                    *)
(***************************************************************************)
\* iconFile.read(&_icons[i], sizeof(Grap256Unit)) when n bytes are left.
ReadTile(old, new, n) ==
    [r \in TileIdx |-> [c \in TileIdx |->
        IF r * (TileDim + 1) + c < n THEN new[r][c] ELSE old[r][c]]]

\* The bytes left in the file when the loop comes to slot i (no read before it
\* having hit the end of the file).
BytesLeft(f, i) == f.count * TileCells + f.tail - (i - 1) * TileCells

\* The loop breaks at the first slot that follows a read which asked for more
\* bytes than were left (that read set the stream's end-of-stream flag): slot i
\* is read when every earlier slot got a whole record.
SlotRead(f, i) == i >= 1 /\ i <= kMaxIcons /\ BytesLeft(f, i - 1) >= TileCells

\* A load that clears the slots the file has no record for.
ReadIconsClearsRest(icons, f) ==
    [i \in DOMAIN icons |->
        IF i >= 1 /\ i <= kMaxIcons
        THEN (IF BytesLeft(f, i) >= TileCells THEN Record(f, i) ELSE ZeroTile)
        ELSE icons[i]]

ReadIcons(icons, f) ==
    [i \in DOMAIN icons |->
        IF SlotRead(f, i)
        THEN ReadTile(icons[i], Record(f, i),
                      IF BytesLeft(f, i) >= TileCells THEN TileCells ELSE BytesLeft(f, i))
        ELSE icons[i]]

loadIcons(s, fs) ==
    IF ~fs.ico.exists
    THEN s
    ELSE [s EXCEPT !.icons = ReadIcons(@, fs.ico)]

(***************************************************************************)
(* AckEngine::saveIcons.  The file is read through Common::File and        *)
(* written through the save-file manager; shared tells whether the host    *)
(* keeps the two in one place, opens whether openForSaving succeeds.  The  *)
(* result is <<engine, files>>.                                            *)
(***************************************************************************)
\* A saveIcons that writes the table without reloading it first.
saveIconsNoReload(s, fs, shared, opens) ==
    IF ~opens
    THEN <<s, fs>>
    ELSE LET f == WrittenIco(s.icons)
         IN  <<s, [fs EXCEPT !.saved = f, !.ico = IF shared THEN f ELSE @]>>

saveIcons(s, fs, shared, opens) ==
    LET s1 == loadIcons(s, fs)
    IN  IF ~opens
        THEN <<s1, fs>>
        ELSE LET f == WrittenIco(s1.icons)
             IN  <<s1, [fs EXCEPT !.saved = f, !.ico = IF shared THEN f ELSE @]>>

(***************************************************************************)
(* The pointer: initMouse, showMouse, hideMouse, mouseIn.                  *)
(***************************************************************************)
showMouse(s) == IF ~s.mouseOn THEN [s EXCEPT !.mouseOn = TRUE] ELSE s

hideMouse(s) == IF s.mouseOn THEN [s EXCEPT !.mouseOn = FALSE] ELSE s

initMouse(s) ==
    showMouse([s EXCEPT !.mouseOn = TRUE, !.mouseActive = TRUE,
                        !.mouseX = kScreenWidth \div 2,
                        !.mouseY = kScreenHeight \div 2])

mouseIn(s, x1, y1, x2, y2) ==
    s.mouseX >= x1 /\ s.mouseX <= x2 /\ s.mouseY >= y1 /\ s.mouseY <= y2

(***************************************************************************)
(* AckEngine::putIcon                                                      *)
(***************************************************************************)
\* _scrnh[yy + i], i in 1..16, and _icons[bb] are read inside their arrays.
PutIconInBounds(yy, bb) ==
    /\ \A i \in 1..16 : yy + i \in 0..(kScrnhSize - 1)
    /\ bb \in 0..kMaxIcons

\* The 16x16 cells of a tile that putIcon copies: rows and columns from 1.
Visible(tile) == [r \in 1..TileDim |-> [c \in 1..TileDim |-> tile[r][c]]]

putIcon(s, xb, yy, bb) ==
    LET s1 == IF s.mouseOn /\ s.mouseActive THEN hideMouse(s) ELSE s
        x  == xb * 4
        s2 == IF PutIconInBounds(yy, bb) THEN s1
              ELSE [s1 EXCEPT !.ub = @ \cup {"putIcon"}]
        src == IF bb \in DOMAIN s.icons THEN s.icons[bb] ELSE ZeroTile
    IN  [s2 EXCEPT !.screenIcons =
            (<<x, yy + 1>> :> [slot |-> bb, tile |-> Visible(src)]) @@ @]

(***************************************************************************)
(* AckEngine::showOption                                                   *)
(***************************************************************************)
\* The lines of option x: column, row and text of each displayText call.
OptionLines(x, registration) ==
    CASE x = 1  -> << <<8, 57, "SELECT/CREATE">>, <<8, 65, " ADVENTURE">> >>
      [] x = 2  -> << <<48, 57, "PLAY ADVENTURE">> >>
      [] x = 3  -> << <<8, 81, "CONFIGURE">>, <<8, 89, " ADVENTURE">> >>
      [] x = 4  -> << <<48, 81, "IMPORT FILES,">>, <<48, 89, "EXPORT REPORTS">> >>
      [] x = 5  -> << <<8, 105, "EDIT FONT">> >>
      [] x = 6  -> << <<48, 105, "EDIT GRAPHIC">>, <<48, 113, " TILES">> >>
      [] x = 7  -> << <<8, 129, "EDIT OBJECTS,">>, <<8, 137, "ITEMS, TERRAIN">> >>
      [] x = 8  -> << <<48, 129, "EDIT MESSAGES">>, <<48, 137, "AND DIALOGUE">> >>
      [] x = 9  -> << <<8, 153, "EDIT MAPS AND">>, <<8, 161, "REGIONS">> >>
      [] x = 10 -> << <<48, 153, "EDIT PEOPLE">>, <<48, 161, "AND CREATURES">> >>
      [] x = 11 -> IF registration = "none"
                   THEN << <<8, 177, "ORDERING">>, <<8, 185, "INFORMATION">> >>
                   ELSE << <<8, 177, "EDIT MACROS">>, <<8, 185, "(ADVANCED)">> >>
      [] x = 12 -> << <<48, 177, "QUIT">>, <<48, 185, "EXIT TO DOS">> >>
      [] OTHER  -> << >>

\* The exemption with option 2 exempt when no adventure is loaded.
ShowOptionKeepsUnloaded(s, x) ==
    \/ x = 1
    \/ x = 12
    \/ (s.registration = "none" /\ x = 11)
    \/ (x = 2 /\ s.advName = NONAME)
    \/ (s.advName # NONAME /\ s.passwordOk)

\* The condition under which showOption leaves n as it was passed.
ShowOptionKeeps(s, x) ==
    \/ x = 1
    \/ x = 12
    \/ (s.registration = "none" /\ x = 11)
    \/ (x = 2 /\ s.advName # NONAME)
    \/ (s.advName # NONAME /\ s.passwordOk)

\* What displayText of each of the lines, at intensity n, leaves on the screen.
LinesText(lines, n) ==
    [p \in {<<lines[k][1], lines[k][2]>> : k \in 1..Len(lines)} |->
        <<n, lines[CHOOSE k \in 1..Len(lines) : <<lines[k][1], lines[k][2]>> = p][3]>>]

showOption(s, x, n, mo) ==
    LET n1 == IF ~ShowOptionKeeps(s, x) THEN ToByte(n + mo) ELSE n
    IN  [s EXCEPT !.screenText = LinesText(OptionLines(x, s.registration), n1) @@ @]

\* The intensity option x's label was last painted with (-1: not painted).
Painted(s, x) ==
    LET first == OptionLines(x, s.registration)[1]
        at    == <<first[1], first[2]>>
    IN  IF at \in DOMAIN s.screenText THEN s.screenText[at][1] ELSE -1

(***************************************************************************)
(* AckEngine::menuSkinBmp.  A row of the file is named by the offset of    *)
(* its first byte, so that the buffer tells which bytes went where.        *)
(***************************************************************************)
NoSkin == [exists |-> FALSE, hdr50 |-> 0]
\* A whole skin file whose header byte 50 is h.
Skin(h) == [exists |-> TRUE, hdr50 |-> h]

\* A decoder that copies the rows in file order.
menuSkinBmpTopDown(s, fs) ==
    IF ~fs.skin.exists
    THEN s
    ELSE LET i2    == IF fs.skin.hdr50 = 0 THEN 256 ELSE fs.skin.hdr50
             start == 54 + i2 * 4
         IN  [s EXCEPT !.screenBuffer =
                 [row \in 0..(kScreenHeight - 1) |-> start + row * kScreenWidth]]

menuSkinBmp(s, fs) ==
    IF ~fs.skin.exists
    THEN s
    ELSE LET i2    == IF fs.skin.hdr50 = 0 THEN 256 ELSE fs.skin.hdr50
             start == 54 + i2 * 4
         IN  [s EXCEPT !.screenBuffer =
                 [row \in 0..(kScreenHeight - 1) |->
                     start + (kScreenHeight - 1 - row) * kScreenWidth]]

(***************************************************************************)
(* AckEngine::redisplay                                                    *)
(***************************************************************************)
\* A pass that swaps marker and background: 222 -> 0 and 0 -> 222.
NormalizeTileSwaps(t) ==
    [r \in TileIdx |-> [c \in TileIdx |->
        IF r >= 1 /\ c >= 1 /\ t[r][c] = 222 THEN 0
        ELSE IF r >= 1 /\ c >= 1 /\ t[r][c] = 0 THEN 222 ELSE t[r][c]]]

NormalizeTile(t) ==
    [r \in TileIdx |-> [c \in TileIdx |->
        IF r >= 1 /\ c >= 1 /\ t[r][c] = 222 THEN 0 ELSE t[r][c]]]

NormalizeIcons(icons) ==
    [i \in DOMAIN icons |-> IF i >= 1 THEN NormalizeTile(icons[i]) ELSE icons[i]]

\* A banner that annotates every loaded adventure with its version.
BannerAlwaysAnnotates(s) ==
    IF s.advName # NONAME
    THEN displayText(displayText(s, 11, 34, 1, "CURRENT ADVENTURE: " \o s.advName),
                     15, 42, 1, "(CREATED WITH ACK " \o version(s.ack.ackVersion) \o ")")
    ELSE displayText(s, 20, 40, 1, "No Adventure loaded.")

Banner(s) ==
    IF s.advName # NONAME
    THEN LET s1 == displayText(s, 11, 34, 1, "CURRENT ADVENTURE: " \o s.advName)
         IN  IF s1.ack.ackVersion # kAckVersion
             THEN displayText(s1, 15, 42, 1,
                              "(CREATED WITH ACK " \o version(s1.ack.ackVersion) \o ")")
             ELSE s1
    ELSE displayText(s, 20, 40, 1, "No Adventure loaded.")

\* The putIcon calls with the test on the registration inverted.
IconButtonsInverted(registration) ==
    << <<3, 57, 1>>, <<43, 57, 2>>, <<3, 81, 3>>, <<43, 81, 4>>,
       <<3, 105, 5>>, <<43, 105, 6>>, <<3, 129, 7>>, <<43, 129, 8>>,
       <<3, 153, 9>>, <<43, 153, 10>>,
       IF registration # "none" THEN <<3, 177, 11>> ELSE <<3, 177, 28>>,
       <<43, 177, 12>> >>

\* The putIcon calls of redisplay, in order: <<xb, yy, bb>>.
IconButtons(registration) ==
    << <<3, 57, 1>>, <<43, 57, 2>>, <<3, 81, 3>>, <<43, 81, 4>>,
       <<3, 105, 5>>, <<43, 105, 6>>, <<3, 129, 7>>, <<43, 129, 8>>,
       <<3, 153, 9>>, <<43, 153, 10>>,
       IF registration = "none" THEN <<3, 177, 11>> ELSE <<3, 177, 28>>,
       <<43, 177, 12>> >>

RECURSIVE PutIcons(_, _, _)
\* The calls from the k-th on; t is the engine the k-th call leaves.
PutIcons(s, buttons, k) ==
    IF k > Len(buttons) THEN s
    ELSE CHOOSE r \in {PutIcons(t, buttons, k + 1) :
                          t \in {putIcon(s, buttons[k][1], buttons[k][2], buttons[k][3])}} : TRUE

RECURSIVE ShowOptions(_, _)
\* for (i = 1; i <= 12; i++) showOption(i, 0, 1), from i on.
ShowOptions(s, i) ==
    IF i > 12 THEN s
    ELSE CHOOSE r \in {ShowOptions(t, i + 1) : t \in {showOption(s, i, 0, 1)}} : TRUE

\* A redisplay that paints the icon buttons before its 222 -> 0 pass.
redisplayPaintsFirst(s, fs) ==
    LET s1 == IF s.advName # NONAME THEN loadConfig(s, fs) ELSE s
        s2 == loadIcons(s1, fs)
        s4 == menuSkinBmp(clearScreen(s2), fs)
        s5 == Banner(s4)
        s6 == PutIcons(s5, IconButtons(s5.registration), 1)
        s7 == [s6 EXCEPT !.icons = NormalizeIcons(@)]
    IN  ShowOptions(s7, 1)

redisplay(s, fs) ==
    LET s1 == IF s.advName # NONAME THEN loadConfig(s, fs) ELSE s
        s2 == loadIcons(s1, fs)
        s3 == [s2 EXCEPT !.icons = NormalizeIcons(@)]
        s4 == menuSkinBmp(clearScreen(s3), fs)
        s5 == Banner(s4)
        s6 == PutIcons(s5, IconButtons(s5.registration), 1)
    IN  ShowOptions(s6, 1)

(***************************************************************************)
(* AckEngine::loadAdventure, AckEngine::processParameters                  *)
(***************************************************************************)
\* The first character of a startup parameter.
FirstChar(p) ==
    CASE p = "-x"  -> "-"
      [] p = "FOO" -> "F"
      [] OTHER     -> ""

\* (char) of a byte, for the bytes the modelled tiles hold.
Chr(b) ==
    CASE b = 70 -> "F"
      [] b = 79 -> "O"
      [] OTHER  -> "?"

RECURSIVE DecodeHres(_, _, _)
\* for (_i = 1; _i <= len; _i++) _hres += (char)tile.data[_i + 1][1], from i on.
DecodeHres(tile, len, i) ==
    IF i > len THEN ""
    ELSE (IF i + 1 \in TileIdx THEN Chr(tile[i + 1][1]) ELSE "?")
         \o DecodeHres(tile, len, i + 1)

\* The result is <<engine, return value>>.
loadAdventure(s, fs, name) ==
    IF name \notin fs.sysMaster
    THEN <<warning(s, "Adventure " \o name \o " not found"), FALSE>>
    ELSE <<loadConfig(s, fs), TRUE>>

\* A processParameters that takes a parameter starting with '-' for a name.
processParametersAnyName(s, fs) ==
    LET paramStr == fs.param
    IN  IF paramStr = ""
        THEN s
        ELSE
          LET s1 == displayText(s, 10, 60, 0, "Loading Adventure...")
              s2 == [s1 EXCEPT !.advName = paramStr]
              r  == loadAdventure(s2, fs, s2.advName)
              s3 == r[1]
              flag == s3.graphic[2][1][1]
          IN  IF ~r[2] \/ flag = 255
              THEN s3
              ELSE
                LET hres == DecodeHres(s3.graphic[1], s3.graphic[1][1][1], 1)
                    s4 == [s3 EXCEPT !.passwordOk =
                              IF flag = 2 THEN TRUE
                              ELSE IF flag = 1 THEN FALSE ELSE @]
                IN  [s4 EXCEPT !.advName = hres]

processParameters(s, fs) ==
    LET paramStr == fs.param
    IN  IF paramStr = "" \/ FirstChar(paramStr) = "-"
        THEN s
        ELSE
          LET s1 == displayText(s, 10, 60, 0, "Loading Adventure...")
              s2 == [s1 EXCEPT !.advName = paramStr]
              r  == loadAdventure(s2, fs, s2.advName)
              s3 == r[1]
              flag == s3.graphic[2][1][1]
          IN  IF ~r[2] \/ flag = 255
              THEN s3
              ELSE
                LET hres == DecodeHres(s3.graphic[1], s3.graphic[1][1][1], 1)
                    s4 == [s3 EXCEPT !.passwordOk =
                              IF flag = 2 THEN TRUE
                              ELSE IF flag = 1 THEN FALSE ELSE @]
                IN  [s4 EXCEPT !.advName = hres]

(***************************************************************************)
(* AckEngine::initVars, allocateResources, initGameState                   *)
(***************************************************************************)
\* What the uninitialized _ack.ackVersion may hold.
UninitVersions == {kAckVersion, 0}

HostPalette == [i \in 0..(NPal - 1) |-> <<0, 0, 0>>]

initVars(v) ==
    [quitTime |-> FALSE, menuCmd |-> 0, whatOpt |-> 1, oldWhatOpt |-> 1,
     passwordOk |-> TRUE, registration |-> "registered", advName |-> NONAME,
     ack |-> [textColors |-> 0, ackVersion |-> v],
     mouseOn |-> FALSE, mouseActive |-> FALSE, mouseX |-> 0, mouseY |-> 0,
     icons |-> << >>, graphic |-> << >>,
     screenBuffer |-> << >>,
     palette |-> HostPalette, screenText |-> NoText, screenIcons |-> NoIcons,
     warnings |-> << >>, launched |-> 0, ub |-> {}]

allocateResources(s) ==
    [s EXCEPT !.icons = ZeroIcons, !.graphic = ZeroGraphic,
              !.screenBuffer = [row \in 0..(kScreenHeight - 1) |-> 0]]

\* _graphic[g] = _icons[i]
CopyIcon(s, g, i) ==
    IF g \in DOMAIN s.graphic /\ i \in DOMAIN s.icons
    THEN [s EXCEPT !.graphic[g] = s.icons[i]]
    ELSE [s EXCEPT !.ub = @ \cup {"graphic"}]

\* initGameState, lines 172-174.
initBanner(s) ==
    displayText([s EXCEPT !.advName = "ACKDATA1"],
                kScreenWidth \div 2 - 30, 60, 0, "Loading...")

\* initGameState, lines 177-188.
initIcons(s, fs) ==
    LET s1 == loadIcons([s EXCEPT !.advName = NONAME], fs)
        s2 == CopyIcon(CopyIcon(CopyIcon(CopyIcon(s1, 241, 23), 242, 9), 243, 24), 244, 11)
    IN  clearScreen(s2)

\* An initGameState that starts the menu on option 0.
initRedisplayZeroBased(s, fs) == [redisplay(initMouse(s), fs) EXCEPT !.whatOpt = 0]

\* initGameState, lines 193-195.
initRedisplay(s, fs) == [redisplay(initMouse(s), fs) EXCEPT !.whatOpt = 1]

(***************************************************************************)
(* The menu: convertKeyCode, handleEvents, checkMouseClick,                *)
(* checkMouseMenuRegions, processMenuCommand, mainMenuLoop.                *)
(***************************************************************************)
convertKeyCode(keycode) ==
    CASE keycode = KEYCODE_RETURN -> CR
      [] keycode = KEYCODE_ESCAPE -> ESC
      [] keycode = KEYCODE_q      -> CharLowerQ
      [] keycode = KEYCODE_Q      -> CharUpperQ
      [] OTHER ->
           IF keycode >= KEYCODE_a /\ keycode <= KEYCODE_z
           THEN CharLowerA + (keycode - KEYCODE_a)
           ELSE IF keycode >= KEYCODE_A /\ keycode <= KEYCODE_Z
                THEN CharUpperA + (keycode - KEYCODE_A)
                ELSE 0

checkMouseClick(s) ==
    IF mouseIn(s, 48, 177, 64, 185) THEN [s EXCEPT !.menuCmd = CharLowerQ] ELSE s

checkMouseMenuRegions(s) ==
    IF mouseIn(s, 4, 57, 33, 73) /\ s.oldWhatOpt # 1
    THEN LET s1 == showOption(s, s.oldWhatOpt, 0, 1)
             s2 == [s1 EXCEPT !.oldWhatOpt = 1, !.whatOpt = 1]
         IN  showOption(s2, s2.whatOpt, 6, -2)
    ELSE s

\* One event of handleEvents' loop (the Quit event, which returns, apart).
handleEvent(s, e) ==
    CASE e.type = "KEYDOWN"     -> [s EXCEPT !.menuCmd = convertKeyCode(e.keycode)]
      [] e.type = "MOUSEMOVE"   -> [s EXCEPT !.mouseX = e.x, !.mouseY = e.y]
      [] e.type = "LBUTTONDOWN" -> checkMouseClick(s)
      [] OTHER                  -> s

handleAdventureSelection(s) == [s EXCEPT !.launched = 1]

handleAdventurePlay(s) == [s EXCEPT !.launched = 2]

\* A processMenuCommand that plays whether or not an adventure is loaded.
processMenuCommandPlaysAlways(s) ==
    CASE s.menuCmd = CharLowerQ \/ s.menuCmd = CharUpperQ ->
           [s EXCEPT !.quitTime = TRUE]
      [] s.menuCmd = CR ->
           (CASE s.whatOpt = 1  -> handleAdventureSelection(s)
              [] s.whatOpt = 2  -> handleAdventurePlay(s)
              [] s.whatOpt = 12 -> [s EXCEPT !.quitTime = TRUE]
              [] OTHER          -> s)
      [] OTHER -> s

\* A processMenuCommand that takes Escape for a quit command.
processMenuCommandEscQuits(s) ==
    CASE s.menuCmd = CharLowerQ \/ s.menuCmd = CharUpperQ \/ s.menuCmd = ESC ->
           [s EXCEPT !.quitTime = TRUE]
      [] s.menuCmd = CR ->
           (CASE s.whatOpt = 1  -> handleAdventureSelection(s)
              [] s.whatOpt = 2  -> IF s.advName # NONAME
                                   THEN handleAdventurePlay(s) ELSE s
              [] s.whatOpt = 12 -> [s EXCEPT !.quitTime = TRUE]
              [] OTHER          -> s)
      [] OTHER -> s

processMenuCommand(s) ==
    CASE s.menuCmd = CharLowerQ \/ s.menuCmd = CharUpperQ ->
           [s EXCEPT !.quitTime = TRUE]
      [] s.menuCmd = CR ->
           (CASE s.whatOpt = 1  -> handleAdventureSelection(s)
              [] s.whatOpt = 2  -> IF s.advName # NONAME
                                   THEN handleAdventurePlay(s) ELSE s
              [] s.whatOpt = 12 -> [s EXCEPT !.quitTime = TRUE]
              [] OTHER          -> s)
      [] OTHER -> s

\* A head of the loop that does not paint the current option highlighted.
menuTopNoHighlight(s) ==
    [s EXCEPT !.quitTime = FALSE, !.menuCmd = kNoCmd, !.oldWhatOpt = s.whatOpt]

\* mainMenuLoop, lines 537-552: the head of the outer loop.
menuTop(s) ==
    LET s1 == showOption([s EXCEPT !.quitTime = FALSE], s.whatOpt, 6, -2)
    IN  [s1 EXCEPT !.menuCmd = kNoCmd, !.oldWhatOpt = s1.whatOpt]

\* mainMenuLoop, lines 560-572: what follows handleEvents in the input loop.
afterEvents(s) ==
    LET s1 == IF mouseIn(s, 4, 57, 33, 73)
              THEN [s EXCEPT !.whatOpt = 1, !.menuCmd = CR] ELSE s
    IN  IF s1.mouseOn THEN checkMouseMenuRegions(s1) ELSE s1

\* mainMenuLoop, lines 576-579.
dispatch(s) == processMenuCommand(showOption(s, s.oldWhatOpt, 0, 1))

(***************************************************************************)
(* The events the host delivers.                                           *)
(***************************************************************************)
KeyCodes == {KEYCODE_RETURN, KEYCODE_ESCAPE, KEYCODE_q, KEYCODE_Q, KEYCODE_a, KEYCODE_F1}

\* The centre, a corner of option 1's rectangle, a corner of the quit rectangle.
MousePoints == {<<160, 100>>, <<4, 57>>, <<64, 185>>}

Events ==
    {[type |-> "QUIT", keycode |-> 0, x |-> 0, y |-> 0],
     [type |-> "LBUTTONDOWN", keycode |-> 0, x |-> 0, y |-> 0],
     [type |-> "OTHER", keycode |-> 0, x |-> 0, y |-> 0]}
    \cup {[type |-> "KEYDOWN", keycode |-> k, x |-> 0, y |-> 0] : k \in KeyCodes}
    \cup {[type |-> "MOUSEMOVE", keycode |-> 0, x |-> p[1], y |-> p[2]] : p \in MousePoints}

\* accel: the last event polled since the head of the loop was a quit
\* accelerator.  commit: one of the events polled since then was a commit input.
IsQuitAccel(s, e) ==
    \/ e.type = "KEYDOWN" /\ e.keycode \in {KEYCODE_q, KEYCODE_Q}
    \/ e.type = "LBUTTONDOWN" /\ mouseIn(s, 48, 177, 64, 185)

IsCommit(e) ==
    \/ e.type = "KEYDOWN" /\ e.keycode = KEYCODE_RETURN
    \/ e.type = "LBUTTONDOWN"

(***************************************************************************)
(* The installations the program is run on.  Files that no run opens are   *)
(* left out: adventure files exist only if an adventure is asked for.      *)
(***************************************************************************)
Params == {"", "-x", "FOO"}
AdvNames == {"FOO", ""}

Envs ==
    {e \in [param : Params,
            sysMaster : SUBSET {"FOO"},
            master : [AdvNames -> {NoMaster, FullMaster(21)}],
            pal : [{"PALETTE2", "PALETTE", "FOO", ""} -> 0..3],
            ico : {NoIco, IcoFile(5, 0, 1)},
            skin : {NoSkin},
            saved : {NoIco}] :
        /\ e.pal["PALETTE2"] \in {0, 1}
        /\ e.pal["PALETTE"] \in {0, 2}
        /\ e.pal["FOO"] \in {0, 3}
        /\ e.pal[""] = e.pal["FOO"]
        /\ e.param # "FOO" =>
              /\ e.sysMaster = {}
              /\ \A n \in AdvNames : e.master[n] = NoMaster /\ e.pal[n] = 0}

NoCall == [op |-> "none", args |-> << >>, pre |-> << >>]

(***************************************************************************)
(* Spec: the program.                                                      *)
(***************************************************************************)
Init ==
    /\ env \in Envs
    /\ eng \in {initVars(v) : v \in UninitVersions}
    /\ pc = "run"
    /\ accel = FALSE
    /\ commit = FALSE
    /\ pending = FALSE
    /\ call = NoCall

\* A step of run() from pc = at to next, leaving the engine as after; a step
\* that ran into undefined behaviour may also end the process.
Step(at, next, after) ==
    /\ pc = at
    /\ eng' = after
    /\ pc' \in (IF after.ub # eng.ub THEN {next, "crashed"} ELSE {next})
    /\ UNCHANGED <<env, accel, commit, call>>

AllocateResources ==
    Step("run", "initBanner", allocateResources(eng)) /\ UNCHANGED pending

InitBanner ==
    Step("initBanner", "initPalette", initBanner(eng)) /\ UNCHANGED pending

InitPalette ==
    /\ Step("initPalette", "initIcons", loadBmpPalette(eng, env, kAckVersion, "PALETTE2"))
    /\ UNCHANGED pending

InitIcons ==
    Step("initIcons", "processParameters", initIcons(eng, env)) /\ UNCHANGED pending

ProcessParameters ==
    /\ Step("processParameters", "redisplay", processParameters(eng, env))
    /\ UNCHANGED pending

InitRedisplay ==
    Step("redisplay", "menuTop", initRedisplay(eng, env)) /\ pending' = FALSE

MenuTop ==
    /\ pc = "menuTop"
    /\ eng' = menuTop(eng)
    /\ pc' = "poll"
    /\ accel' = FALSE
    /\ commit' = FALSE
    /\ UNCHANGED <<env, pending, call>>

\* A handleEvents that notes the Quit event and handles one more queued event
\* before it returns.
PollQuitDrains ==
    /\ pc = "poll"
    /\ \E e \in Events \ {ev \in Events : ev.type = "QUIT"} :
          eng' = handleEvent(eng, e)
    /\ pc' = "done"
    /\ UNCHANGED <<env, accel, commit, pending, call>>

\* handleEvents polls the Quit event: it returns false and mainMenuLoop returns.
PollQuit ==
    /\ pc = "poll"
    /\ pc' = "done"
    /\ UNCHANGED <<eng, env, accel, commit, pending, call>>

\* handleEvents polls any other event.
PollEvent ==
    /\ pc = "poll"
    /\ \E e \in Events \ {ev \in Events : ev.type = "QUIT"} :
          /\ eng' = handleEvent(eng, e)
          /\ accel' = IsQuitAccel(eng, e)
          /\ commit' = (commit \/ IsCommit(e))
    /\ UNCHANGED <<env, pc, pending, call>>

\* The queue is empty: handleEvents returns true and the input loop goes on to
\* its mouse checks and its test.
NoEvent ==
    /\ pc = "poll"
    /\ eng' = afterEvents(eng)
    /\ pc' = IF eng'.menuCmd = kNoCmd THEN "poll" ELSE "dispatch"
    /\ UNCHANGED <<env, accel, commit, pending, call>>

Dispatch ==
    /\ pc = "dispatch"
    /\ eng' = dispatch([eng EXCEPT !.launched = 0])
    /\ pc' = IF eng'.quitTime THEN "done" ELSE "menuTop"
    /\ pending' = (pending \/ ~eng'.quitTime)
    /\ UNCHANGED <<env, accel, commit, call>>

Next ==
    \/ AllocateResources
    \/ InitBanner
    \/ InitPalette
    \/ InitIcons
    \/ ProcessParameters
    \/ InitRedisplay
    \/ MenuTop
    \/ PollQuit
    \/ PollEvent
    \/ NoEvent
    \/ Dispatch

Spec == Init /\ [][Next]_vars

(***************************************************************************)
(* Claims about the menu loop, checked under Spec.                         *)
(***************************************************************************)
\* C1: whenever the last input polled before a dispatch is a quit accelerator
\* (KeyDown 'q' or 'Q', or a left click with the pointer inside
\* (48,177)-(64,185)), the dispatch sets the quit flag, launches no option
\* and the loop terminates.
C1_QuitAccelerator ==
    [][(pc = "dispatch" /\ accel)
          => (eng'.quitTime /\ eng'.launched = 0 /\ pc' = "done")]_vars

\* C4: no input is awaited while a redisplay is owed: after a dispatch that
\* did not quit, redisplay() runs before the next poll.
C4_RedisplayAfterDispatch == pc = "poll" => ~pending

\* C5: a dispatch launches an option only if a commit input (Enter, or a left
\* click) was polled since the head of the loop.
C5_DispatchNeedsCommit ==
    [][(pc = "dispatch" /\ eng'.launched # 0) => commit]_vars


(***************************************************************************)
(* SpecOps: one call of one method.  The engine it is called on has been   *)
(* allocated; the members the method reads hold any value of their type,   *)
(* and the files it opens are there or not.                                *)
(***************************************************************************)
Allocated == allocateResources(initVars(kAckVersion))

NoFiles ==
    [param |-> "", sysMaster |-> {}, master |-> [n \in AdvNames |-> NoMaster],
     pal |-> [n \in {"PALETTE2", "PALETTE", "FOO", ""} |-> 0],
     ico |-> NoIco, skin |-> NoSkin, saved |-> NoIco]

Registrations == {"registered", "REGISTERED", "none"}
Sessions ==
    {[Allocated EXCEPT !.advName = a, !.passwordOk = p, !.registration = r] :
        a \in {NONAME, "FOO"}, p \in BOOLEAN, r \in Registrations}

\* The (n, mo) pairs showOption is called with: unhighlighted and highlighted.
Intensities == {<<0, 1>>, <<6, -2>>}

MenuCmds == {CR, CharLowerQ, CharUpperQ, ESC, 0}

\* A palette and a record left by earlier loads, a screen with text on it.
LoadedBefore ==
    {displayText([Allocated EXCEPT !.palette = pl, !.ack = a, !.icons = ic],
                 130, 60, 0, "Loading...") :
        pl \in {HostPalette, [i \in 0..(NPal - 1) |-> <<4 * i, 252, 84>>]},
        a \in {[textColors |-> 0, ackVersion |-> kAckVersion],
               [textColors |-> 3, ackVersion |-> 19]},
        ic \in {ZeroIcons, [i \in 0..kMaxIcons |-> FileTile(2, i)]}}

MasterFiles == {NoMaster, FullMaster(kAckVersion), FullMaster(21), FullMaster(276), ShortMaster}
IcoFiles ==
    {NoIco} \cup {IcoFile(k, tl, 1) : k \in {0, 1, 5, kMaxIcons - 1, kMaxIcons, kMaxIcons + 2},
                                      tl \in {0, 2}}
\* The redirect data processParameters decodes: _graphic[2].data[1][1] is the
\* flag, _graphic[1] the name, its length first.
RedirectFlags == {0, 1, 2, 255}
RedirectLens == {0, 1}
FlagTile(flag) == [ZeroTile EXCEPT ![1][1] = flag]
NameTile(len) == [ZeroTile EXCEPT ![1][1] = len, ![2][1] = 70]

\* The icon files saveIcons is asked to save over.
SavedOver == {NoIco, IcoFile(5, 0, 1), IcoFile(5, 2, 1), IcoFile(kMaxIcons + 2, 0, 1)}

SkinFiles == {NoSkin, Skin(0), Skin(16), Skin(255)}
PalFilesFor(name) ==
    {[NoFiles.pal EXCEPT ![name] = a, !["PALETTE"] = b] : a \in {0, 3}, b \in {0, 2}}

\* The methods called, and the inputs each is called with.
Ops ==
    {"showOption", "processMenuCommand", "loadBmpPalette", "loadConfig",
     "loadIcons", "redisplay", "menuSkinBmp", "processParameters", "saveIcons"}

OpInputs(op) ==
    CASE op = "showOption" ->
           {[op |-> "showOption", args |-> <<x, a[1], a[2]>>, eng |-> s, env |-> NoFiles] :
               x \in 1..12, a \in Intensities, s \in Sessions}
      [] op = "processMenuCommand" ->
           {[op |-> "processMenuCommand", args |-> << >>,
             eng |-> [s EXCEPT !.whatOpt = w, !.oldWhatOpt = w, !.menuCmd = c], env |-> NoFiles] :
               w \in 1..12, c \in MenuCmds, s \in {t \in Sessions : t.registration # "REGISTERED"}}
      [] op = "loadBmpPalette" ->
           {[op |-> "loadBmpPalette", args |-> <<s.ack.ackVersion, n>>,
             eng |-> [s EXCEPT !.advName = n], env |-> [NoFiles EXCEPT !.pal = pf]] :
               n \in {"FOO", "PALETTE2"}, s \in {t \in LoadedBefore : t.icons = ZeroIcons},
               pf \in PalFilesFor("FOO") \cup PalFilesFor("PALETTE2")}
      [] op = "loadConfig" ->
           {[op |-> "loadConfig", args |-> << >>,
             eng |-> [s EXCEPT !.advName = n, !.passwordOk = p],
             env |-> [NoFiles EXCEPT !.pal = pf, !.master[n] = m]] :
               n \in AdvNames, p \in BOOLEAN, s \in {t \in LoadedBefore : t.icons = ZeroIcons},
               pf \in PalFilesFor("FOO") \cup PalFilesFor(""), m \in MasterFiles}
      [] op = "loadIcons" ->
           {[op |-> "loadIcons", args |-> << >>, eng |-> s, env |-> [NoFiles EXCEPT !.ico = f]] :
               s \in {t \in LoadedBefore : t.palette = HostPalette /\ t.ack.ackVersion = kAckVersion},
               f \in IcoFiles}
      [] op = "redisplay" ->
           {[op |-> "redisplay", args |-> << >>,
             eng |-> [s EXCEPT !.advName = n, !.registration = r],
             env |-> [NoFiles EXCEPT !.pal = pf, !.master[""] = m, !.master["FOO"] = m, !.ico = f]] :
               n \in AdvNames \cup {NONAME}, r \in {"registered", "none"},
               s \in {t \in LoadedBefore : t.palette = HostPalette},
               pf \in PalFilesFor("FOO"), m \in MasterFiles,
               f \in {NoIco, IcoFile(5, 0, 1)}}
      [] op = "menuSkinBmp" ->
           {[op |-> "menuSkinBmp", args |-> << >>, eng |-> clearScreen(s),
             env |-> [NoFiles EXCEPT !.skin = k]] :
               s \in {t \in LoadedBefore : t.palette = HostPalette /\ t.icons = ZeroIcons},
               k \in SkinFiles}
      [] op = "processParameters" ->
           {[op |-> "processParameters", args |-> << >>,
             eng |-> [Allocated EXCEPT !.graphic[1] = NameTile(len), !.graphic[2] = FlagTile(flag)],
             env |-> [NoFiles EXCEPT !.param = p, !.sysMaster = sm, !.master["FOO"] = m]] :
               p \in Params, len \in RedirectLens, flag \in RedirectFlags,
               sm \in SUBSET {"FOO"}, m \in {NoMaster, FullMaster(21)}}
      [] op = "saveIcons" ->
           {[op |-> "saveIcons", args |-> <<shared, opens>>, eng |-> s,
             env |-> [NoFiles EXCEPT !.ico = f]] :
               shared \in BOOLEAN, opens \in BOOLEAN,
               s \in {t \in LoadedBefore : t.palette = HostPalette /\ t.ack.ackVersion = kAckVersion},
               f \in SavedOver}

InitOps ==
    /\ \E op \in Ops : \E i \in OpInputs(op) :
          /\ eng = i.eng
          /\ env = i.env
          /\ call = [op |-> i.op, args |-> i.args, pre |-> i.eng]
    /\ pc = "call"
    /\ accel = FALSE
    /\ commit = FALSE
    /\ pending = FALSE

\* The method call.op returns, leaving the engine as after.
Return(op, after) ==
    /\ pc = "call"
    /\ call.op = op
    /\ eng' = after
    /\ pc' = "return"
    /\ UNCHANGED <<env, accel, commit, pending, call>>

CallShowOption ==
    Return("showOption", showOption(eng, call.args[1], call.args[2], call.args[3]))

CallProcessMenuCommand == Return("processMenuCommand", processMenuCommand(eng))

CallLoadBmpPalette ==
    Return("loadBmpPalette", loadBmpPalette(eng, env, call.args[1], call.args[2]))

CallLoadConfig == Return("loadConfig", loadConfig(eng, env))

CallLoadIcons == Return("loadIcons", loadIcons(eng, env))

CallRedisplay == Return("redisplay", redisplay(eng, env))

CallMenuSkinBmp == Return("menuSkinBmp", menuSkinBmp(eng, env))

CallProcessParameters == Return("processParameters", processParameters(eng, env))

\* saveIcons returns, the files as it left them.
CallSaveIcons ==
    /\ pc = "call"
    /\ call.op = "saveIcons"
    /\ LET r == saveIcons(eng, env, call.args[1], call.args[2])
       IN  eng' = r[1] /\ env' = r[2]
    /\ pc' = "return"
    /\ UNCHANGED <<accel, commit, pending, call>>

\* loadIcons of the same name is called right after saveIcons returned;
\* call.pre becomes the engine saveIcons returned with.
CallLoadIconsAfterSave ==
    /\ pc = "return"
    /\ call.op = "saveIcons"
    /\ eng' = loadIcons(eng, env)
    /\ call' = [call EXCEPT !.op = "loadIconsAfterSave", !.pre = eng]
    /\ UNCHANGED <<env, pc, accel, commit, pending>>

NextOps ==
    \/ CallShowOption
    \/ CallProcessMenuCommand
    \/ CallLoadBmpPalette
    \/ CallLoadConfig
    \/ CallLoadIcons
    \/ CallRedisplay
    \/ CallMenuSkinBmp
    \/ CallProcessParameters
    \/ CallSaveIcons
    \/ CallLoadIconsAfterSave

SpecOps == InitOps /\ [][NextOps]_vars

(***************************************************************************)
(* Claims about one method, checked under SpecOps: call.pre is the engine  *)
(* the method was called on, eng the engine it returned with.              *)
(***************************************************************************)
Returned(op) == pc = "return" /\ call.op = op

\* C2: a commit (Enter) on an option 2..11 with no adventure loaded, or on an
\* option 3..11 with the password not validated, launches no sub-mode and
\* leaves the adventure name, passwordOk, registration, the highlighted option
\* and the quit flag as they were.
C2_DisabledOptionNoOp ==
    (/\ Returned("processMenuCommand")
     /\ call.pre.menuCmd = CR
     /\ \/ call.pre.advName = NONAME /\ call.pre.whatOpt \in 2..11
        \/ ~call.pre.passwordOk /\ call.pre.whatOpt \in 3..11)
    => /\ eng.launched = 0
       /\ eng.advName = call.pre.advName
       /\ eng.passwordOk = call.pre.passwordOk
       /\ eng.registration = call.pre.registration
       /\ eng.whatOpt = call.pre.whatOpt
       /\ eng.quitTime = call.pre.quitTime

\* Enter on option 2 (play) with no adventure loaded has been processed.
C2_Witness ==
    /\ Returned("processMenuCommand")
    /\ call.pre.menuCmd = CR
    /\ call.pre.advName = NONAME
    /\ call.pre.whatOpt = 2
    /\ eng.launched = 0

\* Every line of option x's label is on the screen with intensity n.
LabelPainted(s, x, n) ==
    LET lines == OptionLines(x, s.registration)
    IN  \A k \in 1..Len(lines) :
           /\ <<lines[k][1], lines[k][2]>> \in DOMAIN s.screenText
           /\ s.screenText[<<lines[k][1], lines[k][2]>>] = <<n, lines[k][3]>>

C6_FailedConfigDemotes ==
    /\ (Returned("loadConfig") /\ ~MasterOf(env, call.pre.advName).exists)
          => /\ eng.advName = NONAME
             /\ eng.ack = call.pre.ack
             /\ eng.palette = call.pre.palette
             /\ eng.ub = call.pre.ub
    /\ (Returned("redisplay") /\ eng.advName # NONAME)
          => /\ call.pre.advName # NONAME
             /\ MasterOf(env, call.pre.advName).exists
             /\ eng.advName = call.pre.advName

\* loadConfig has failed to open the master file of adventure FOO, on an
\* engine holding a record and a palette from an earlier load.
C6_Witness ==
    /\ Returned("loadConfig")
    /\ call.pre.advName = "FOO"
    /\ ~MasterOf(env, "FOO").exists
    /\ call.pre.palette # HostPalette
    /\ call.pre.ack.ackVersion # kAckVersion
    /\ eng.advName = NONAME

\* The palette the palette manager holds after the file of contents id is loaded.
PaletteOfFile(id) ==
    [i \in 0..(NPal - 1) |->
        <<(4 * PalBytes(id, i)[1]) % 256, (4 * PalBytes(id, i)[2]) % 256,
          (4 * PalBytes(id, i)[3]) % 256>>]

\* C7: loadBmpPalette for name X loads <sysdir>X.PAL if it can be opened, else
\* <sysdir>PALETTE.PAL; if neither can, the palette stays what it was, one
\* warning is recorded, the screen is untouched and advName is unchanged.
C7_PaletteFallback ==
    Returned("loadBmpPalette") =>
        LET own == PalFileOf(env, call.args[2])
            fallback == PalFileOf(env, "PALETTE")
        IN  /\ own # 0 => eng.palette = PaletteOfFile(own)
            /\ (own = 0 /\ fallback # 0) => eng.palette = PaletteOfFile(fallback)
            /\ (own # 0 \/ fallback # 0) => eng.warnings = call.pre.warnings
            /\ (own = 0 /\ fallback = 0)
                  => /\ eng.palette = call.pre.palette
                     /\ Len(eng.warnings) = Len(call.pre.warnings) + 1
            /\ eng.screenText = call.pre.screenText
            /\ eng.screenIcons = call.pre.screenIcons
            /\ eng.screenBuffer = call.pre.screenBuffer
            /\ eng.advName = call.pre.advName

\* The palette load for FOO has found neither FOO.PAL nor PALETTE.PAL, with a
\* palette loaded earlier and text on the screen.
C7_Witness ==
    /\ Returned("loadBmpPalette")
    /\ call.args[2] = "FOO"
    /\ PalFileOf(env, "FOO") = 0
    /\ PalFileOf(env, "PALETTE") = 0
    /\ call.pre.palette # HostPalette
    /\ call.pre.screenText # NoText
    /\ eng.palette = call.pre.palette
    /\ eng.warnings # << >>

\* C8: from a file of k complete records and nothing more, loadIcons overwrites
\* slots 1..min(k, kMaxIcons) with the file's records in order, leaves the
\* slots above k and slot 0 as they were, and reports no error.
C8_PartialIconBatch ==
    (Returned("loadIcons") /\ env.ico.exists /\ env.ico.tail = 0) =>
        LET k == env.ico.count
        IN  /\ \A i \in 1..kMaxIcons :
                  eng.icons[i] = IF i <= k THEN FileTile(env.ico.pat, i)
                                 ELSE call.pre.icons[i]
            /\ eng.icons[0] = call.pre.icons[0]
            /\ DOMAIN eng.icons = DOMAIN call.pre.icons
            /\ eng.warnings = call.pre.warnings
            /\ eng.ub = call.pre.ub

\* A file of 5 records has been loaded over a table whose slots held other
\* icons: slot 5 holds the file's record, slot 6 what it held.
C8_Witness ==
    /\ Returned("loadIcons")
    /\ env.ico.exists /\ env.ico.count = 5 /\ env.ico.tail = 0
    /\ call.pre.icons # ZeroIcons
    /\ eng.icons[5] = FileTile(env.ico.pat, 5)
    /\ eng.icons[5] # call.pre.icons[5]
    /\ eng.icons[6] = call.pre.icons[6]
    /\ eng.icons[6] # FileTile(env.ico.pat, 6)

\* Where redisplay writes the banner's lines.
NameLineAt == <<11, 34>>
VersionLineAt == <<15, 42>>
NoAdventureAt == <<20, 40>>

\* C9: when redisplay loads a master record whose ackVersion is not
\* kAckVersion the adventure stays loaded and the banner has the line
\* "(CREATED WITH ACK V..)"; that line is painted if and only if an adventure
\* is loaded and the version of its record differs from kAckVersion; with no
\* adventure loaded the banner is "No Adventure loaded." instead.
C9_VersionMismatchKept ==
    Returned("redisplay") =>
        LET f == MasterOf(env, call.pre.advName)
            annotated == VersionLineAt \in DOMAIN eng.screenText
        IN  /\ (call.pre.advName # NONAME /\ f.exists /\ ~f.short
                   /\ f.ackVersion # kAckVersion)
                  => /\ eng.advName = call.pre.advName
                     /\ eng.ack.ackVersion = f.ackVersion
                     /\ annotated
            /\ annotated <=> (eng.advName # NONAME /\ eng.ack.ackVersion # kAckVersion)
            /\ annotated =>
                  eng.screenText[VersionLineAt] =
                     <<1, "(CREATED WITH ACK " \o version(eng.ack.ackVersion) \o ")">>
            /\ eng.advName # NONAME
                  => /\ NameLineAt \in DOMAIN eng.screenText
                     /\ eng.screenText[NameLineAt] =
                           <<1, "CURRENT ADVENTURE: " \o eng.advName>>
                     /\ NoAdventureAt \notin DOMAIN eng.screenText
            /\ eng.advName = NONAME
                  => /\ NoAdventureAt \in DOMAIN eng.screenText
                     /\ eng.screenText[NoAdventureAt] = <<1, "No Adventure loaded.">>
                     /\ NameLineAt \notin DOMAIN eng.screenText
                     /\ ~annotated

\* redisplay has loaded the record of adventure FOO, made with version 21: FOO
\* is still the adventure and the banner says V2.1.
C9_Witness ==
    /\ Returned("redisplay")
    /\ call.pre.advName = "FOO"
    /\ MasterOf(env, "FOO") = FullMaster(21)
    /\ eng.advName = "FOO"
    /\ VersionLineAt \in DOMAIN eng.screenText
    /\ eng.screenText[VersionLineAt] = <<1, "(CREATED WITH ACK V2.1)">>

\* C10: the version line of the banner is "V<major>.<minor>" with major = v / 10
\* and minor = v % 10 of the ackVersion v of the record that was loaded.
C10_VersionFormat ==
    (Returned("redisplay") /\ VersionLineAt \in DOMAIN eng.screenText) =>
        LET v == eng.ack.ackVersion
        IN  eng.screenText[VersionLineAt] =
               <<1, "(CREATED WITH ACK V" \o ToString(v \div 10) \o "."
                       \o ToString(v % 10) \o ")">>

\* The icon table redisplay runs its marker-clear pass on: the table it was
\* called with, after loadIcons.
LoadedIcons == loadIcons(call.pre, env).icons

\* C11: the 222 -> 0 pass of redisplay is idempotent (run on the table it
\* produced it gives that table again) and changes no cell whose value is not
\* 222.
C11_NormalizeIdempotent ==
    Returned("redisplay") =>
        LET before == LoadedIcons
            once   == NormalizeIcons(before)
        IN  /\ eng.icons = once
            /\ NormalizeIcons(once) = once
            /\ \A i \in DOMAIN before : \A r \in TileIdx : \A c \in TileIdx :
                  before[i][r][c] # 222 => once[i][r][c] = before[i][r][c]

\* redisplay has run the pass on a table holding a marker in a visible cell, a
\* marker in row 0, a zero cell and a cell of another value: the visible marker
\* is cleared, the others are kept.
C11_Witness ==
    /\ Returned("redisplay")
    /\ LET before == LoadedIcons
       IN  /\ before[1][1][2] = 222 /\ eng.icons[1][1][2] = 0
           /\ before[1][0][0] = 222 /\ eng.icons[1][0][0] = 222
           /\ before[1][1][1] \notin {0, 222} /\ eng.icons[1][1][1] = before[1][1][1]
           /\ before[kMaxIcons][1][1] = 0 /\ eng.icons[kMaxIcons][1][1] = 0

\* C12: menuSkinBmp puts stored row i of the file (the kScreenWidth bytes at
\* offset 54 + paletteSize * 4 + i * kScreenWidth, paletteSize being header
\* byte 50, or 256 when that byte is 0) into row kScreenHeight - 1 - i of the
\* screen buffer, for every i.
C12_SkinRowsReversed ==
    (Returned("menuSkinBmp") /\ env.skin.exists) =>
        LET paletteSize == IF env.skin.hdr50 = 0 THEN 256 ELSE env.skin.hdr50
        IN  /\ DOMAIN eng.screenBuffer = 0..(kScreenHeight - 1)
            /\ \A i \in 0..(kScreenHeight - 1) :
                  eng.screenBuffer[kScreenHeight - 1 - i] =
                     54 + paletteSize * 4 + i * kScreenWidth

\* A skin whose header byte 50 is 0 has been decoded: the first stored row, at
\* offset 54 + 1024, is the last row of the buffer.
C12_Witness ==
    /\ Returned("menuSkinBmp")
    /\ env.skin = Skin(0)
    /\ eng.screenBuffer[kScreenHeight - 1] = 1078
    /\ eng.screenBuffer[0] = 1078 + (kScreenHeight - 1) * kScreenWidth
    /\ call.pre.screenBuffer[0] = 0

(***************************************************************************)
(* Claims about startup and the menu loop, checked under Spec.             *)
(***************************************************************************)
NoAdventureAsked == env.param = "" \/ FirstChar(env.param) = "-"

InMenu == pc \in {"menuTop", "poll", "dispatch", "done"}

\* C13: when the startup parameter is absent or starts with '-',
\* processParameters attempts no load (it paints nothing, records no warning
\* and leaves the master record alone), advName is "NONAME" and passwordOk is
\* true from then on, and the redisplay paints "No Adventure loaded.".
C13_NoAdventureRequested ==
    NoAdventureAsked =>
        /\ pc = "redisplay" =>
              /\ eng.advName = NONAME
              /\ eng.passwordOk
              /\ eng.screenText = NoText
              /\ eng.ack.textColors = 0
              /\ \A k \in 1..Len(eng.warnings) :
                    eng.warnings[k] = "Could not open palette file PALETTE.PAL"
        /\ InMenu =>
              /\ eng.advName = NONAME
              /\ eng.passwordOk
              /\ NoAdventureAt \in DOMAIN eng.screenText
              /\ eng.screenText[NoAdventureAt] = <<1, "No Adventure loaded.">>
              /\ NameLineAt \notin DOMAIN eng.screenText
              /\ VersionLineAt \notin DOMAIN eng.screenText

\* Startup with the parameter "-x" has come to the menu loop.
C13_Witness ==
    /\ env.param = "-x"
    /\ pc = "menuTop"
    /\ eng.advName = NONAME
    /\ NoAdventureAt \in DOMAIN eng.screenText

\* C14: the step on which handleEvents polls the Quit event changes nothing of
\* the engine (highlighted option, menu command, session flags, screen), and
\* no step follows it: mainMenuLoop has returned.
C14_QuitEventTerminal ==
    [][/\ (pc = "poll" /\ pc' = "done") => eng' = eng
       /\ pc # "done"]_vars

\* The Quit event was polled after an Enter key in the same batch: the loop is
\* over, the Enter was not dispatched and the quit flag was never set.
C14_Witness ==
    /\ pc = "done"
    /\ ~eng.quitTime
    /\ eng.menuCmd = CR
    /\ commit
    /\ eng.launched = 0

\* C15: while the menu loop waits for input for the first time (no option has
\* been dispatched yet), the current and the previous option are both 1 and
\* the quit flag is false.
C15_InitialIdleOptionOne ==
    (pc = "poll" /\ ~pending) =>
        /\ eng.whatOpt = 1
        /\ eng.oldWhatOpt = 1
        /\ ~eng.quitTime

\* Startup with adventure FOO loaded has come to the first wait for input,
\* option 1 painted highlighted.
C15_Witness ==
    /\ pc = "poll"
    /\ ~pending
    /\ eng.advName = "FOO"
    /\ eng.menuCmd = kNoCmd
    /\ eng.whatOpt = 1
    /\ LabelPainted(eng, 1, 6)

C17_NoPartialMasterRecord ==
    (Returned("loadConfig") /\ MasterOf(env, call.pre.advName).exists
        /\ MasterOf(env, call.pre.advName).short)
    => /\ eng.ack = call.pre.ack
       /\ eng.advName = NONAME

\* loadConfig has read a master file that ends before the version field: the
\* adventure is still loaded, the colours are the file's and the version is
\* the one an earlier load left.
C17_Witness ==
    /\ Returned("loadConfig")
    /\ call.pre.advName = "FOO"
    /\ MasterOf(env, "FOO") = ShortMaster
    /\ eng.advName = "FOO"
    /\ eng.ack.textColors = ShortMaster.textColors
    /\ eng.ack.textColors # call.pre.ack.textColors
    /\ eng.ack.ackVersion = call.pre.ack.ackVersion
    /\ eng.ack.ackVersion # kAckVersion

Option11IconAt == <<12, 178>>
Option11LabelAt == <<8, 177>>
Option11Label2At == <<8, 185>>

\* C19: the registration is always the registered one, and in the menu option
\* 11 shows "EDIT MACROS" / "(ADVANCED)" with icon 28, whatever the adventure.
C19_AlwaysRegistered ==
    /\ eng.registration = "registered"
    /\ InMenu =>
          /\ Option11LabelAt \in DOMAIN eng.screenText
          /\ eng.screenText[Option11LabelAt][2] = "EDIT MACROS"
          /\ Option11Label2At \in DOMAIN eng.screenText
          /\ eng.screenText[Option11Label2At][2] = "(ADVANCED)"
          /\ Option11IconAt \in DOMAIN eng.screenIcons
          /\ eng.screenIcons[Option11IconAt].slot = 28

\* The menu is up with adventure FOO loaded and option 11 drawn.
C19_Witness ==
    /\ pc = "poll"
    /\ eng.advName = "FOO"
    /\ eng.registration = "registered"
    /\ Option11IconAt \in DOMAIN eng.screenIcons
    /\ eng.screenIcons[Option11IconAt].slot = 28
    /\ eng.screenText[Option11LabelAt][2] = "EDIT MACROS"

\* The highlighted option never leaves option 1: the only statements that
\* assign _whatOpt assign 1.
OnlyOptionOne == eng.whatOpt = 1

\* C20, for option 12 (whose hit-rectangle is the one checkMouseClick names):
\* when the input loop ends on Enter with the pointer inside (48,177)-(64,185),
\* option 12 is the highlighted option, the one the Enter dispatches.
C20_Option12Selectable ==
    (pc = "dispatch" /\ mouseIn(eng, 48, 177, 64, 185) /\ eng.menuCmd = CR)
        => eng.whatOpt = 12

\* The pointer was moved into option 12's rectangle and Enter was pressed: the
\* loop is about to dispatch, and the highlighted option is still option 1.
C20_Witness ==
    /\ pc = "dispatch"
    /\ eng.mouseX = 64 /\ eng.mouseY = 185
    /\ eng.menuCmd = CR
    /\ commit
    /\ eng.whatOpt = 1
    /\ eng.oldWhatOpt = 1

(***************************************************************************)
(* Further claims about the menu loop, checked under Spec.                 *)
(***************************************************************************)
\* The intensity the highlighted call showOption(x, 6, -2) and the
\* unhighlighted call showOption(x, 0, 1) paint option x with.
HighlightedAs(s, x) == IF ShowOptionKeeps(s, x) THEN 6 ELSE ToByte(6 - 2)

UnhighlightedAs(s, x) == IF ShowOptionKeeps(s, x) THEN 0 ELSE ToByte(0 + 1)

\* C21: whenever the menu loop waits for an input event, the current option
\* is in 1..12, the previous option equals the current one, the current
\* option's label was last painted by the highlighted call (base 6, offset -2)
\* and the label of every other option by the unhighlighted call (base 0,
\* offset +1).
C21_SingleHighlight ==
    pc = "poll" =>
        /\ eng.whatOpt \in 1..12
        /\ eng.oldWhatOpt = eng.whatOpt
        /\ \A x \in 1..12 :
              LabelPainted(eng, x, IF x = eng.whatOpt
                                   THEN HighlightedAs(eng, x)
                                   ELSE UnhighlightedAs(eng, x))

\* The loop waits for input again after an option was dispatched: option 1 is
\* highlighted again, option 2 (no adventure: dimmed) and option 12 are not.
C21_Witness ==
    /\ pc = "poll"
    /\ pending
    /\ eng.menuCmd = kNoCmd
    /\ eng.advName = NONAME
    /\ LabelPainted(eng, 1, 6)
    /\ LabelPainted(eng, 2, 1)
    /\ LabelPainted(eng, 12, 0)

\* C22: a command key is acted on before any later event is consumed: once
\* handleEvents has stored the command of an Enter or 'Q' KeyDown (the only
\* sources of these two values of menuCmd while events are polled), the next
\* step is the dispatch of that command, not the poll of another event.
C22_CommandKeyActedOnFirst ==
    [][(pc = "poll" /\ eng.menuCmd \in {CR, CharUpperQ})
          => (pc' = "dispatch" /\ eng'.menuCmd = eng.menuCmd)]_vars

EarlierTextAt == <<130, 60>>

\* C24: redisplay reloads the configuration (only if an adventure is set),
\* reloads the icons, clears the 222 markers, clears the screen and paints the
\* skin, paints the banner, then the 12 icon buttons, then the 12 labels
\* unhighlighted: it returns with the reloaded configuration, nothing of the
\* earlier screen, the banner, each button painted from its reloaded and
\* cleared slot (so no painted cell holds 222), and every label unhighlighted.
C24_RedisplayOrder ==
    Returned("redisplay") =>
        LET cfg     == IF call.pre.advName # NONAME
                       THEN loadConfig(call.pre, env) ELSE call.pre
            icons   == NormalizeIcons(LoadedIcons)
            buttons == IconButtons(eng.registration)
        IN  /\ eng.advName = cfg.advName
            /\ eng.ack = cfg.ack
            /\ eng.palette = cfg.palette
            /\ eng.icons = icons
            /\ EarlierTextAt \notin DOMAIN eng.screenText
            /\ eng.screenBuffer = menuSkinBmp(clearScreen(cfg), env).screenBuffer
            /\ (IF eng.advName # NONAME THEN NameLineAt ELSE NoAdventureAt)
                  \in DOMAIN eng.screenText
            /\ \A k \in 1..12 :
                  LET at == <<buttons[k][1] * 4, buttons[k][2] + 1>>
                  IN  /\ at \in DOMAIN eng.screenIcons
                      /\ eng.screenIcons[at] =
                            [slot |-> buttons[k][3],
                             tile |-> Visible(icons[buttons[k][3]])]
            /\ \A at \in DOMAIN eng.screenIcons :
                  \A r \in 1..TileDim : \A c \in 1..TileDim :
                     eng.screenIcons[at].tile[r][c] # 222
            /\ \A x \in 1..12 : LabelPainted(eng, x, UnhighlightedAs(eng, x))

\* redisplay has run with no icon file on a table whose slot 1 held the marker
\* in a painted cell, over a screen with text on it: the button of option 1 is
\* painted from slot 1 with that cell cleared, and the earlier text is gone.
C24_Witness ==
    /\ Returned("redisplay")
    /\ ~env.ico.exists
    /\ call.pre.icons[1][2][2] = 222
    /\ EarlierTextAt \in DOMAIN call.pre.screenText
    /\ eng.screenIcons[<<12, 58>>].slot = 1
    /\ eng.screenIcons[<<12, 58>>].tile[2][2] = 0
    /\ LabelPainted(eng, 12, 0)

(***************************************************************************)
(* Claims about memory safety, checked under Spec.                         *)
(***************************************************************************)
\* C25: the graphic-table accesses of startup stay in bounds: the stores of
\* icon slots 23, 9, 24, 11 to graphic offsets 241..244 (and the reads of
\* slots 1 and 2 by processParameters) fall inside the allocated graphic
\* table, and the icon slots read inside the icon table.
C25_GraphicAccessInBounds ==
    /\ "graphic" \notin eng.ub
    /\ pc \in {"processParameters", "redisplay"} =>
          {1, 2, 241, 242, 243, 244} \subseteq DOMAIN eng.graphic
    /\ pc \in {"initIcons", "processParameters", "redisplay"} =>
          {23, 9, 24, 11} \subseteq DOMAIN eng.icons

\* The process has ended on the stores to graphic offsets 241..244, before
\* anything was painted by redisplay.
C25_Witness ==
    /\ pc = "crashed"
    /\ eng.ub = {"graphic"}
    /\ DOMAIN eng.graphic = 0..(kGrapsSize + 4)
    /\ {23, 9, 24, 11} \subseteq DOMAIN eng.icons

(***************************************************************************)
(* Further claims about one method, checked under SpecOps (third part).    *)
(***************************************************************************)
\* C26: the 12 putIcon calls of redisplay stay in bounds: for each call the
\* row-offset index yy + i (i in 1..16) is inside the 40-entry _scrnh table,
\* the 16 bytes of each row land inside the 320x200 screen buffer, and the
\* icon slot read is inside the icon table.
C26_IconPaintInBounds ==
    Returned("redisplay") =>
        /\ "putIcon" \notin eng.ub
        /\ \A at \in DOMAIN eng.screenIcons :
              /\ \A i \in 1..16 : (at[2] - 1) + i \in 0..(kScrnhSize - 1)
              /\ at[1] + 16 <= kScreenWidth
              /\ (at[2] - 1) + 16 <= kScreenHeight - 1
              /\ eng.screenIcons[at].slot \in 0..kMaxIcons

\* redisplay has returned from an engine free of undefined behaviour with its
\* 12 buttons painted, the first of them through _scrnh[58] and beyond.
C26_Witness ==
    /\ Returned("redisplay")
    /\ call.pre.ub = {}
    /\ eng.ub = {"putIcon"}
    /\ Cardinality(DOMAIN eng.screenIcons) = 12
    /\ <<12, 58>> \in DOMAIN eng.screenIcons
    /\ 57 + 1 > kScrnhSize - 1

\* C27: saveIcons first reloads the table from the file, then (when the file
\* opens for saving) writes exactly kMaxIcons records, slots 1..kMaxIcons in
\* order, and a loadIcons of the same name right after a successful saveIcons
\* leaves the icon table (and the engine) as saveIcons returned it.
C27_SaveLoadRoundTrip ==
    /\ Returned("saveIcons") =>
          /\ (~call.args[1] \/ ~call.args[2]) => eng = loadIcons(call.pre, env)
          /\ call.args[2] =>
                /\ env.saved.exists
                /\ env.saved.count = kMaxIcons /\ env.saved.tail = 0
                /\ \A i \in 1..kMaxIcons : Record(env.saved, i) = eng.icons[i]
          /\ ~call.args[2] => env.saved = NoIco
    /\ (Returned("loadIconsAfterSave") /\ call.args[2]) =>
          /\ eng.icons = call.pre.icons
          /\ eng = call.pre

\* saveIcons has saved, in the place loadIcons reads, over a file of 5 records
\* and 2 bytes more, from a table that held other icons, and loadIcons has
\* read the kMaxIcons records back: slot 5 is the old file's, slot 7 the
\* table's own, and the new file holds both.
C27_Witness ==
    /\ Returned("loadIconsAfterSave")
    /\ call.args = <<TRUE, TRUE>>
    /\ env.ico = env.saved
    /\ env.ico.count = kMaxIcons
    /\ eng.icons[5] = FileTile(1, 5)
    /\ eng.icons[7] = FileTile(2, 7)
    /\ Record(env.ico, 5) = FileTile(1, 5)
    /\ Record(env.ico, 7) = FileTile(2, 7)
    /\ eng.icons[6] \notin {FileTile(1, 6), FileTile(2, 6)}

\* The palette file loadBmpPalette read: the named one, else PALETTE.PAL
\* (0: neither could be opened).
PaletteFileRead ==
    IF PalFileOf(env, call.args[2]) # 0
    THEN PalFileOf(env, call.args[2]) ELSE PalFileOf(env, "PALETTE")

\* C28 as stated: for every slot i and every channel the host palette value
\* is exactly 4 times the file's value for slot i, on the fallback path too.
C28_AsStated ==
    (Returned("loadBmpPalette") /\ PaletteFileRead # 0) =>
        \A i \in 0..(NPal - 1) : \A ch \in 1..3 :
           eng.palette[i][ch] = 4 * PalBytes(PaletteFileRead, i)[ch]

\* C28: for every slot i and every channel the host palette value is 4 times
\* the low six bits of the file's value for slot i (4 times the value, cut to
\* the 8-bit channel), on the fallback path too; for file values in 0..63 it
\* is exactly 4 times the value and lies in 0..252.
C28_PaletteTimesFour ==
    (Returned("loadBmpPalette") /\ PaletteFileRead # 0) =>
        \A i \in 0..(NPal - 1) : \A ch \in 1..3 :
           LET v == PalBytes(PaletteFileRead, i)[ch]
           IN  /\ eng.palette[i][ch] = 4 * (v % 64)
               /\ v \in 0..63 => /\ eng.palette[i][ch] = 4 * v
                                 /\ eng.palette[i][ch] \in 0..252

\* FOO.PAL could not be opened and PALETTE.PAL, whose values are all in 0..63,
\* was loaded over another palette: slots 0 and 1 hold 4 times the file's
\* entries 0 and 1, in that order.
C28_Witness ==
    /\ Returned("loadBmpPalette")
    /\ call.args[2] = "FOO"
    /\ PalFileOf(env, "FOO") = 0
    /\ PalFileOf(env, "PALETTE") = 2
    /\ call.pre.palette # HostPalette
    /\ eng.palette[0] = <<252, 0, 168>>
    /\ eng.palette[1] = <<248, 0, 168>>

(***************************************************************************)
(* Further claims about the menu loop, checked under Spec (second part).   *)
(***************************************************************************)
\* The codes of the keys that command nothing: not Enter, not 'q', not 'Q'
\* (and not the value that stands for no command yet).
Unrecognized(cmd) == cmd \notin {CR, CharLowerQ, CharUpperQ, kNoCmd}

\* C29: a KeyDown whose code is neither Enter nor 'q'/'Q' changes nothing:
\* the step that polls it leaves the highlighted option, its label, advName,
\* passwordOk, registration and the quit flag as they were; the dispatch of
\* its code leaves them too, launches nothing and does not end the loop; and
\* the head of the loop then waits for input with the same option painted
\* highlighted.
C29_UnrecognizedKeyNoEffect ==
    [][/\ (pc = "poll" /\ pc' = "poll" /\ Unrecognized(eng'.menuCmd)) =>
             /\ eng'.whatOpt = eng.whatOpt
             /\ eng'.oldWhatOpt = eng.oldWhatOpt
             /\ eng'.advName = eng.advName
             /\ eng'.passwordOk = eng.passwordOk
             /\ eng'.registration = eng.registration
             /\ eng'.quitTime = eng.quitTime
             /\ eng'.screenText = eng.screenText
       /\ (pc = "dispatch" /\ Unrecognized(eng.menuCmd)) =>
             /\ pc' = "menuTop"
             /\ eng'.launched = 0
             /\ eng'.whatOpt = eng.whatOpt
             /\ eng'.advName = eng.advName
             /\ eng'.passwordOk = eng.passwordOk
             /\ eng'.registration = eng.registration
             /\ eng'.quitTime = eng.quitTime
       /\ (pc = "menuTop" /\ Unrecognized(eng.menuCmd)) =>
             /\ pc' = "poll"
             /\ eng'.menuCmd = kNoCmd
             /\ eng'.whatOpt = eng.whatOpt
             /\ eng'.oldWhatOpt = eng.whatOpt
             /\ ~eng'.quitTime
             /\ LabelPainted(eng', eng.whatOpt, HighlightedAs(eng', eng.whatOpt))]_vars

\* The code of the Escape key has been dispatched: nothing was launched, the
\* quit flag is false, option 1 is still the current one, and the loop is at
\* its head again.
C29_Witness ==
    /\ pc = "menuTop"
    /\ pending
    /\ eng.menuCmd = ESC
    /\ eng.launched = 0
    /\ ~eng.quitTime
    /\ eng.whatOpt = 1
    /\ LabelPainted(eng, 1, 0)

====
